---- MODULE Spec2Model ----
(***************************************************************************)
(* Model of data_script.py: login -> bearer token -> two authenticated     *)
(* GETs -> one timestamped JSON dump.  The script runs top to bottom; a    *)
(* run is one execution of the module, and the data directory outlives     *)
(* the runs.  The portal and the clock are the environment: every request  *)
(* is answered by any response of a small set, whatever was sent.          *)
(***************************************************************************)
EXTENDS Integers, Sequences, FiniteSets, TLC

(* Number of executions of the script over one data directory. *)
MaxRuns == 2

----------------------------------------------------------------------------
(* JSON / Python values: a tagged record; Python None is JSON null. *)

JNull == [kind |-> "null", v |-> 0]

JNum(n) == [kind |-> "num", v |-> n]

JStr(s) == [kind |-> "str", v |-> s]

JArr(items) == [kind |-> "arr", v |-> items]

(* a dict, as its sequence of <<key, value>> pairs in insertion order *)
JObj(pairs) == [kind |-> "obj", v |-> pairs]

(* Python truth value of a JSON-derived value, as `not access_token` reads it *)
PyTruthy(x) ==
  CASE x.kind = "null" -> FALSE
    [] x.kind = "num" -> x.v # 0
    [] x.kind = "str" -> x.v # ""
    [] x.kind = "arr" -> Len(x.v) > 0
    [] x.kind = "obj" -> Len(x.v) > 0

(* dict.get(key, default) *)
DictGet(obj, key, default) ==
  IF \E i \in 1..Len(obj.v) : obj.v[i][1] = key
  THEN LET i == CHOOSE j \in 1..Len(obj.v) : obj.v[j][1] = key IN obj.v[i][2]
  ELSE default

(* str.format of a value inside an f-string *)
PyStr(x) ==
  CASE x.kind = "null" -> "None"
    [] x.kind = "num" -> ToString(x.v)
    [] x.kind = "str" -> x.v
    [] OTHER -> "<repr>"

----------------------------------------------------------------------------
(* json.dump(obj, f, indent=2) *)

RECURSIVE Spaces(_)
Spaces(n) == IF n = 0 THEN "" ELSE " " \o Spaces(n - 1)

Newline(level) == "\n" \o Spaces(2 * level)

RECURSIVE Dumps(_, _)
RECURSIVE DumpItems(_, _, _)
RECURSIVE DumpPairs(_, _, _)

DumpItems(items, i, level) ==
  IF i > Len(items) THEN ""
  ELSE (IF i > 1 THEN "," ELSE "") \o Newline(level)
       \o Dumps(items[i], level) \o DumpItems(items, i + 1, level)

DumpPairs(pairs, i, level) ==
  IF i > Len(pairs) THEN ""
  ELSE (IF i > 1 THEN "," ELSE "") \o Newline(level)
       \o "\"" \o pairs[i][1] \o "\": " \o Dumps(pairs[i][2], level)
       \o DumpPairs(pairs, i + 1, level)

Dumps(x, level) ==
  CASE x.kind = "null" -> "null"
    [] x.kind = "num" -> ToString(x.v)
    [] x.kind = "str" -> "\"" \o x.v \o "\""
    [] x.kind = "arr" ->
         IF Len(x.v) = 0 THEN "[]"
         ELSE "[" \o DumpItems(x.v, 1, level + 1) \o Newline(level) \o "]"
    [] x.kind = "obj" ->
         IF Len(x.v) = 0 THEN "{}"
         ELSE "{" \o DumpPairs(x.v, 1, level + 1) \o Newline(level) \o "}"

----------------------------------------------------------------------------
(* datetime.now(ZoneInfo("America/Vancouver")).strftime('%Y-%m-%d_%H-%M-%S') *)
(* for instants (epoch seconds) of the year 2025.                           *)

(* 2025-03-09 10:00:00 UTC: 02:00 PST becomes 03:00 PDT *)
DstStart == 1741514400

(* 2025-11-02 09:00:00 UTC: 02:00 PDT becomes 01:00 PST *)
DstEnd == 1762074000

UtcOffset(t) == IF t >= DstStart /\ t < DstEnd THEN -7 * 3600 ELSE -8 * 3600

Pad2(n) == IF n < 10 THEN "0" \o ToString(n) ELSE ToString(n)

(* civil date of a day number counted from 1970-01-01 *)
CivilDate(days) ==
  LET z == days + 719468
      era == z \div 146097
      doe == z - era * 146097
      yoe == (doe - doe \div 1460 + doe \div 36524 - doe \div 146096) \div 365
      doy == doe - (365 * yoe + yoe \div 4 - yoe \div 100)
      mp == (5 * doy + 2) \div 153
      d == doy - (153 * mp + 2) \div 5 + 1
      m == IF mp < 10 THEN mp + 3 ELSE mp - 9
      y == yoe + era * 400 + (IF m <= 2 THEN 1 ELSE 0)
  IN [year |-> y, month |-> m, day |-> d]

Strftime(t) ==
  LET local == t + UtcOffset(t)
      date == CivilDate(local \div 86400)
      sod == local % 86400
  IN ToString(date.year) \o "-" \o Pad2(date.month) \o "-" \o Pad2(date.day)
     \o "_" \o Pad2(sod \div 3600) \o "-" \o Pad2((sod % 3600) \div 60)
     \o "-" \o Pad2(sod % 60)

(* the instants at which a run may read the clock: around the repeated hour *)
Instants == {DstEnd - 3600, DstEnd - 1, DstEnd}

----------------------------------------------------------------------------
(* The portal *)

url_login == "https://ppaportal.portlink.co/api/accounts/login"

url_currentVesselTraffic == "https://ppaportal.portlink.co/api/pdams/GetCurrentVesselTraffic"

url_positionReport == "https://ppaportal.portlink.co/api/map/PositionReport"

(* A response: a transport error, or a status with a body that either     *)
(* parses as JSON (json = TRUE, body its value) or does not.  A 3xx       *)
(* without a Location header is handed to the caller as it is.            *)
TransportError == [err |-> TRUE, status |-> 0, json |-> FALSE, body |-> JNull]

Http(status, body) == [err |-> FALSE, status |-> status, json |-> TRUE, body |-> body]

NotJson(status) == [err |-> FALSE, status |-> status, json |-> FALSE, body |-> JNull]

NoResponse == [err |-> FALSE, status |-> 0, json |-> FALSE, body |-> JNull]

TokenBody(tok) == JObj(<< <<"access_token", tok>> >>)

LoginResponses ==
  { TransportError,
    Http(401, JObj(<<>>)),
    Http(500, TokenBody(JStr("T"))),
    Http(300, TokenBody(JStr("T"))),
    NotJson(200),
    Http(200, JArr(<<JStr("T")>>)),
    Http(200, JObj(<<>>)),
    Http(200, TokenBody(JNull)),
    Http(200, TokenBody(JStr(""))),
    Http(200, TokenBody(JStr("T"))),
    Http(200, JObj(<< <<"token_type", JStr("bearer")>>, <<"access_token", JStr("U")>> >>)) }

DataBody(d) == JObj(<< <<"data", d>> >>)

(* the payload of an endpoint: a list of vessels, an object of positions *)
Payload(url) ==
  IF url = url_currentVesselTraffic
  THEN JArr(<<JNum(1), JNum(2), JNum(3)>>)
  ELSE JObj(<< <<"a", JNum(1)>> >>)

DataResponses(url) ==
  { TransportError,
    Http(500, DataBody(Payload(url))),
    Http(300, DataBody(Payload(url))),
    NotJson(200),
    Http(200, JArr(<<JNum(1), JNum(2), JNum(3)>>)),
    Http(200, JObj(<<>>)),
    Http(200, DataBody(JNull)),
    Http(200, DataBody(Payload(url))) }

(* os.getenv('EMAIL'), os.getenv('PASSWORD'): None when the variable is not set *)
Environments ==
  { [email |-> JStr("pilot@ppa"), password |-> JStr("secret")],
    [email |-> JNull, password |-> JStr("secret")],
    [email |-> JStr("pilot@ppa"), password |-> JStr("")] }

----------------------------------------------------------------------------
(* Response.raise_for_status *)
RaiseForStatus(status) == status >= 400 /\ status < 600

Absent == "<absent>"

Unbound == [kind |-> "unbound", v |-> 0]

----------------------------------------------------------------------------
(* State *)

VARIABLES
  pc,                    \* position of the run in the script
  run,                   \* number of the current execution
  env,                   \* os.getenv('EMAIL'), os.getenv('PASSWORD')
  session,               \* module-level session: bound once login returned
  io,                    \* requests, file operations and prints of this run, in order
  currentVesselTraffic,
  positionReport,
  collected_data,
  now,                   \* last reading of the wall clock
  filename,
  dataDir,               \* the folder BASE_DIR/data exists
  files,                 \* file name -> text, for the files of the data folder
  unhandled,             \* exception that ended the run, "" if none
  saved                  \* every dump of every run so far: <<file name, text>>

vars == <<pc, run, env, session, io, currentVesselTraffic, positionReport,
          collected_data, now, filename, dataDir, files, unhandled, saved>>

NoSession == [bound |-> FALSE, authorization |-> Absent]

NoFiles == [f \in {} |-> ""]

Event(op, target, auth, payload, resp) ==
  [op |-> op, target |-> target, auth |-> auth, payload |-> payload, resp |-> resp]

Printed(msg) == Event("print", msg, Absent, JNull, NoResponse)

Init ==
  /\ pc = "login"
  /\ run = 1
  /\ env \in Environments
  /\ session = NoSession
  /\ io = <<>>
  /\ currentVesselTraffic = Unbound
  /\ positionReport = Unbound
  /\ collected_data = Unbound
  /\ now = DstEnd - 3600
  /\ filename = ""
  /\ dataDir \in BOOLEAN
  /\ files = NoFiles
  /\ unhandled = ""
  /\ saved = <<>>

----------------------------------------------------------------------------
(* create_authenticated_session *)

LoginPayload(e) == JObj(<< <<"email", e.email>>, <<"password", e.password>> >>)

(* create_authenticated_session without the call of raise_for_status *)
LoginException_NoStatusCheck(resp) ==
  IF resp.err THEN "ConnectionError"
  ELSE IF ~resp.json THEN "JSONDecodeError"
  ELSE IF resp.body.kind # "obj" THEN "AttributeError"
  ELSE IF ~PyTruthy(DictGet(resp.body, "access_token", JNull)) THEN "ValueError"
  ELSE ""

(* the exception the body of create_authenticated_session raises, "" if none *)
LoginException(resp) ==
  IF resp.err THEN "ConnectionError"
  ELSE IF RaiseForStatus(resp.status) THEN "HTTPError"
  ELSE IF ~resp.json THEN "JSONDecodeError"
  ELSE IF resp.body.kind # "obj" THEN "AttributeError"
  ELSE IF ~PyTruthy(DictGet(resp.body, "access_token", JNull)) THEN "ValueError"
  ELSE ""

(* the token put in the header without its scheme *)
BearerHeader_NoScheme(resp) == PyStr(DictGet(resp.body, "access_token", JNull))

BearerHeader(resp) == "Bearer " \o PyStr(DictGet(resp.body, "access_token", JNull))

(* a login that is tried again after a failure *)
Login_Retry ==
  /\ pc = "login"
  /\ \E resp \in LoginResponses :
       /\ io' = Append(io, Event("POST", url_login, Absent, LoginPayload(env), resp))
       /\ IF LoginException(resp) # ""
          THEN /\ pc' = IF Len(io) = 0 THEN "login" ELSE "aborted"
               /\ unhandled' = IF Len(io) = 0 THEN "" ELSE LoginException(resp)
               /\ UNCHANGED session
          ELSE /\ pc' = "fetch1"
               /\ session' = [bound |-> TRUE, authorization |-> BearerHeader(resp)]
               /\ UNCHANGED unhandled
  /\ UNCHANGED <<run, env, currentVesselTraffic, positionReport, collected_data,
                 now, filename, dataDir, files, saved>>

Login ==
  /\ pc = "login"
  /\ \E resp \in LoginResponses :
       /\ io' = Append(io, Event("POST", url_login, Absent, LoginPayload(env), resp))
       /\ IF LoginException(resp) # ""
          THEN /\ pc' = "aborted"
               /\ unhandled' = LoginException(resp)
               /\ UNCHANGED session
          ELSE /\ pc' = "fetch1"
               /\ session' = [bound |-> TRUE, authorization |-> BearerHeader(resp)]
               /\ UNCHANGED unhandled
  /\ UNCHANGED <<run, env, currentVesselTraffic, positionReport, collected_data,
                 now, filename, dataDir, files, saved>>

----------------------------------------------------------------------------
(* getDataAPI *)

(* the try block without the call of raise_for_status *)
TryException_NoStatusCheck(resp) ==
  IF resp.err THEN "ConnectionError"
  ELSE IF ~resp.json THEN "JSONDecodeError"
  ELSE IF resp.body.kind # "obj" THEN "AttributeError"
  ELSE ""

(* the exception the try block raises, "" if none *)
TryException(resp) ==
  IF resp.err THEN "ConnectionError"
  ELSE IF RaiseForStatus(resp.status) THEN "HTTPError"
  ELSE IF ~resp.json THEN "JSONDecodeError"
  ELSE IF resp.body.kind # "obj" THEN "AttributeError"
  ELSE ""

(* a handler written as `except requests.RequestException` *)
Caught_RequestsOnly(exc) == exc \in {"ConnectionError", "HTTPError"}

(* except Exception: every exception the try block can raise is one *)
Caught(exc) ==
  exc \in {"ConnectionError", "HTTPError", "JSONDecodeError", "AttributeError"}

ErrorMessage(url, exc) == "Error fetching data from " \o url \o ": " \o exc

(* getDataAPI returning the parsed body instead of its 'data' field *)
getDataAPI_WholeBody(url, resp) ==
  LET exc == TryException(resp) IN
  IF exc = ""
  THEN [raised |-> "", value |-> resp.body, out |-> <<>>]
  ELSE [raised |-> "", value |-> JNull, out |-> <<Printed(ErrorMessage(url, exc))>>]

(* the call getDataAPI(session, url) when the portal answers resp:        *)
(* what it returns, what it prints and what it lets propagate             *)
getDataAPI(url, resp) ==
  LET exc == TryException(resp) IN
  IF exc = ""
  THEN [raised |-> "", value |-> DictGet(resp.body, "data", JNull), out |-> <<>>]
  ELSE IF Caught(exc)
  THEN [raised |-> "", value |-> JNull, out |-> <<Printed(ErrorMessage(url, exc))>>]
  ELSE [raised |-> exc, value |-> Unbound, out |-> <<>>]

FetchVesselTraffic ==
  /\ pc = "fetch1"
  /\ \E resp \in DataResponses(url_currentVesselTraffic) :
       LET r == getDataAPI(url_currentVesselTraffic, resp) IN
       /\ io' = Append(io, Event("GET", url_currentVesselTraffic,
                                  session.authorization, JNull, resp)) \o r.out
       /\ IF r.raised # ""
          THEN /\ pc' = "aborted"
               /\ unhandled' = r.raised
               /\ UNCHANGED currentVesselTraffic
          ELSE /\ pc' = "fetch2"
               /\ currentVesselTraffic' = r.value
               /\ UNCHANGED unhandled
  /\ UNCHANGED <<run, env, session, positionReport, collected_data, now,
                 filename, dataDir, files, saved>>

FetchPositionReport ==
  /\ pc = "fetch2"
  /\ \E resp \in DataResponses(url_positionReport) :
       LET r == getDataAPI(url_positionReport, resp) IN
       /\ io' = Append(io, Event("GET", url_positionReport,
                                  session.authorization, JNull, resp)) \o r.out
       /\ IF r.raised # ""
          THEN /\ pc' = "aborted"
               /\ unhandled' = r.raised
               /\ UNCHANGED positionReport
          ELSE /\ pc' = "collect"
               /\ positionReport' = r.value
               /\ UNCHANGED unhandled
  /\ UNCHANGED <<run, env, session, currentVesselTraffic, collected_data, now,
                 filename, dataDir, files, saved>>

----------------------------------------------------------------------------
(* the persisting part of the script *)

(* the two results stored under each other's key *)
Collect_Swapped ==
  /\ pc = "collect"
  /\ collected_data' = JObj(<< <<"currentVesselTraffic", positionReport>>,
                               <<"positionReport", currentVesselTraffic>> >>)
  /\ pc' = "timestamp"
  /\ UNCHANGED <<run, env, session, io, currentVesselTraffic, positionReport,
                 now, filename, dataDir, files, unhandled, saved>>

Collect ==
  /\ pc = "collect"
  /\ collected_data' = JObj(<< <<"currentVesselTraffic", currentVesselTraffic>>,
                               <<"positionReport", positionReport>> >>)
  /\ pc' = "timestamp"
  /\ UNCHANGED <<run, env, session, io, currentVesselTraffic, positionReport,
                 now, filename, dataDir, files, unhandled, saved>>

FileName(t) == Strftime(t) \o ".json"

Timestamp ==
  /\ pc = "timestamp"
  /\ \E t \in Instants :
       /\ t >= now
       /\ now' = t
       /\ filename' = FileName(t)
  /\ pc' = "makedirs"
  /\ UNCHANGED <<run, env, session, io, currentVesselTraffic, positionReport,
                 collected_data, dataDir, files, unhandled, saved>>

(* os.makedirs(data_folder, exist_ok): the exception it raises, "" if none *)
MakedirsException(exists, exist_ok) ==
  IF exists /\ ~exist_ok THEN "FileExistsError" ELSE ""

Makedirs ==
  /\ pc = "makedirs"
  /\ io' = Append(io, Event("makedirs", "data", Absent, JNull, NoResponse))
  /\ IF MakedirsException(dataDir, TRUE) # ""
     THEN /\ pc' = "aborted"
          /\ unhandled' = MakedirsException(dataDir, TRUE)
          /\ UNCHANGED dataDir
     ELSE /\ pc' = "dump"
          /\ dataDir' = TRUE
          /\ UNCHANGED unhandled
  /\ UNCHANGED <<run, env, session, currentVesselTraffic, positionReport,
                 collected_data, now, filename, files, saved>>

(* open(file_path, 'w') and json.dump into it *)
(* a write that leaves an existing file as it is *)
WriteFile_KeepsExisting(fs, name, text) == fs @@ (name :> text)

WriteFile(fs, name, text) == (name :> text) @@ fs

Dump ==
  /\ pc = "dump"
  /\ IF ~dataDir
     THEN /\ pc' = "aborted"
          /\ unhandled' = "FileNotFoundError"
          /\ UNCHANGED <<io, files, saved>>
     ELSE /\ pc' = "print"
          /\ io' = Append(io, Event("write", filename, Absent, JNull, NoResponse))
          /\ files' = WriteFile(files, filename, Dumps(collected_data, 0))
          /\ saved' = Append(saved, <<filename, Dumps(collected_data, 0)>>)
          /\ UNCHANGED unhandled
  /\ UNCHANGED <<run, env, session, currentVesselTraffic, positionReport,
                 collected_data, now, filename, dataDir>>

SavedMessage(name) == "Saved data to " \o name

PrintSaved ==
  /\ pc = "print"
  /\ io' = Append(io, Printed(SavedMessage(filename)))
  /\ pc' = "done"
  /\ UNCHANGED <<run, env, session, currentVesselTraffic, positionReport,
                 collected_data, now, filename, dataDir, files, unhandled, saved>>

(* the script is executed again: a new process over the same data folder *)
StartRun ==
  /\ pc \in {"done", "aborted"}
  /\ run < MaxRuns
  /\ run' = run + 1
  /\ pc' = "login"
  /\ env' \in Environments
  /\ session' = NoSession
  /\ io' = <<>>
  /\ currentVesselTraffic' = Unbound
  /\ positionReport' = Unbound
  /\ collected_data' = Unbound
  /\ filename' = ""
  /\ unhandled' = ""
  /\ UNCHANGED <<now, dataDir, files, saved>>

Step ==
  \/ Login
  \/ FetchVesselTraffic
  \/ FetchPositionReport
  \/ Collect
  \/ Timestamp
  \/ Makedirs
  \/ Dump
  \/ PrintSaved

Next == Step \/ StartRun

Spec == Init /\ [][Next]_vars

(* the interpreter keeps executing the script; every request returns *)
FairSpec == Spec /\ WF_vars(Step)

----------------------------------------------------------------------------
(* Reading the log of a run *)

Posts == SelectSeq(io, LAMBDA e : e.op = "POST")

Gets == SelectSeq(io, LAMBDA e : e.op = "GET")

GetsTo(url) == SelectSeq(io, LAMBDA e : e.op = "GET" /\ e.target = url)

FileOps == SelectSeq(io, LAMBDA e : e.op \in {"makedirs", "write"})

HasKey(obj, key) == \E i \in 1..Len(obj.v) : obj.v[i][1] = key

ValueAt(obj, key) == obj.v[CHOOSE i \in 1..Len(obj.v) : obj.v[i][1] = key][2]

IsJsonObject(resp) == ~resp.err /\ resp.json /\ resp.body.kind = "obj"

Is2xx(resp) == ~resp.err /\ resp.status >= 200 /\ resp.status <= 299

Is4xx5xx(resp) == ~resp.err /\ resp.status >= 400 /\ resp.status <= 599

(* the module-level name that receives the result of the GET to url *)
ResultOf(url) ==
  IF url = url_currentVesselTraffic THEN currentVesselTraffic ELSE positionReport

OtherUrl(url) ==
  IF url = url_currentVesselTraffic THEN url_positionReport ELSE url_currentVesselTraffic

(* the value at 'data' of a JSON object body, null if the key is absent *)
DataOf(resp) == IF HasKey(resp.body, "data") THEN ValueAt(resp.body, "data") ELSE JNull

----------------------------------------------------------------------------
(* C1: when the login fails (4xx/5xx status, transport error, or a body   *)
(* without an access token) the run ends there with an unhandled          *)
(* exception: no GET was sent, the data folder was not created or used,   *)
(* no file was written and nothing was saved.                             *)

LoginFailed(resp) ==
  \/ resp.err
  \/ Is4xx5xx(resp)
  \/ ~IsJsonObject(resp)
  \/ ~HasKey(resp.body, "access_token")

C1_LoginFailureAborts ==
  \A i \in DOMAIN io :
    (io[i].op = "POST" /\ LoginFailed(io[i].resp)) =>
      /\ pc = "aborted"
      /\ unhandled # ""
      /\ ~session.bound
      /\ Len(io) = 1
      /\ Gets = <<>>
      /\ FileOps = <<>>
      /\ (run = 1 => files = NoFiles /\ saved = <<>>)
      /\ Len(saved) < run

C1_Witness ==
  /\ pc = "aborted"
  /\ unhandled = "HTTPError"
  /\ Len(Posts) = 1
  /\ Posts[1].resp.status = 500
  /\ ~dataDir
  /\ files = NoFiles

----------------------------------------------------------------------------
(* C2 (as amended): a failed data fetch (4xx/5xx status, body that is not *)
(* JSON, JSON body that is not an object, transport error) raises         *)
(* nothing and gives null; the run goes on, the other endpoint is         *)
(* requested once with the same session header, and its result is what    *)
(* its own response gives.                                                *)

FetchFailed(resp) == resp.err \/ Is4xx5xx(resp) \/ ~IsJsonObject(resp)

(* the original wording: any non-2xx status is a failure *)
FetchFailedNon2xx(resp) == resp.err \/ ~Is2xx(resp) \/ ~IsJsonObject(resp)

OwnResult(resp) == IF FetchFailed(resp) THEN JNull ELSE DataOf(resp)

Absorbed(failed(_)) ==
  \A i \in DOMAIN io :
    (io[i].op = "GET" /\ failed(io[i].resp)) =>
      /\ pc # "aborted"
      /\ unhandled = ""
      /\ ResultOf(io[i].target) = JNull
      /\ pc # "fetch2" =>
           /\ Len(GetsTo(OtherUrl(io[i].target))) = 1
           /\ GetsTo(OtherUrl(io[i].target))[1].auth = io[i].auth
           /\ GetsTo(OtherUrl(io[i].target))[1].payload = JNull
           /\ ResultOf(OtherUrl(io[i].target)) = OwnResult(GetsTo(OtherUrl(io[i].target))[1].resp)

C2_FetchFailureAbsorbed == Absorbed(FetchFailed)

C2_Original == Absorbed(FetchFailedNon2xx)

C2_Witness ==
  /\ pc = "done"
  /\ Len(Gets) = 2
  /\ Gets[1].resp.err
  /\ Gets[2].resp = Http(200, DataBody(JObj(<< <<"a", JNum(1)>> >>)))
  /\ currentVesselTraffic = JNull
  /\ positionReport = JObj(<< <<"a", JNum(1)>> >>)

----------------------------------------------------------------------------
(* C3: once the login has succeeded the run always reaches the dump and   *)
(* writes the file, whatever the two fetches gave, null included.         *)

FileWritten ==
  /\ pc \in {"print", "done"}
  /\ filename \in DOMAIN files
  /\ files[filename] = Dumps(collected_data, 0)

C3_AlwaysWritten == (pc = "fetch1") ~> FileWritten

C3_Witness ==
  /\ FileWritten
  /\ Len(Gets) = 2
  /\ FetchFailed(Gets[1].resp)
  /\ FetchFailed(Gets[2].resp)
  /\ currentVesselTraffic = JNull
  /\ positionReport = JNull

----------------------------------------------------------------------------
(* C4: with EMAIL or PASSWORD missing the run fails to authenticate and   *)
(* no login request with an empty or missing credential is sent.          *)

CredentialMissing(e) == ~PyTruthy(e.email) \/ ~PyTruthy(e.password)

C4_MissingCredentialNeverSent ==
  /\ CredentialMissing(env) => ~session.bound
  /\ \A i \in DOMAIN io :
       io[i].op = "POST" =>
         /\ PyTruthy(ValueAt(io[i].payload, "email"))
         /\ PyTruthy(ValueAt(io[i].payload, "password"))

----------------------------------------------------------------------------
(* C5: after a successful login every GET of the run carries              *)
(* Authorization: Bearer <T>, T the access_token of the login response;   *)
(* the header of the session stays that one, also after a failed fetch.   *)

LoginToken == ValueAt(Posts[1].resp.body, "access_token")

C5_BearerOnEveryGet ==
  session.bound =>
    /\ LoginToken.kind = "str"
    /\ session.authorization = "Bearer " \o LoginToken.v
    /\ \A i \in DOMAIN io :
         io[i].op = "GET" => io[i].auth = "Bearer " \o LoginToken.v

C5_Witness ==
  /\ Len(Gets) = 2
  /\ FetchFailed(Gets[1].resp)
  /\ LoginToken = JStr("U")
  /\ Gets[1].auth = "Bearer U"
  /\ Gets[2].auth = "Bearer U"

----------------------------------------------------------------------------
(* C6: for a 2xx response with a JSON object body the fetch gives exactly *)
(* the value at 'data', and null when the key is absent.                  *)

C6_ReturnsDataField ==
  \A i \in DOMAIN io :
    (io[i].op = "GET" /\ Is2xx(io[i].resp) /\ IsJsonObject(io[i].resp)) =>
      /\ ResultOf(io[i].target) = DataOf(io[i].resp)
      /\ io[i].resp.body = DataBody(JObj(<< <<"a", JNum(1)>> >>))
           => ResultOf(io[i].target) = JObj(<< <<"a", JNum(1)>> >>)
      /\ io[i].resp.body = JObj(<<>>) => ResultOf(io[i].target) = JNull

C6_Witness ==
  /\ Len(Gets) = 2
  /\ Gets[1].resp = Http(200, JObj(<<>>))
  /\ currentVesselTraffic = JNull
  /\ Gets[2].resp = Http(200, DataBody(JObj(<< <<"a", JNum(1)>> >>)))
  /\ positionReport = JObj(<< <<"a", JNum(1)>> >>)

----------------------------------------------------------------------------
(* C7: the file a run wrote is one JSON object with the two keys          *)
(* currentVesselTraffic and positionReport, in that order, each holding   *)
(* the result of its own endpoint.                                        *)

ExampleText ==
  "{\n  \"currentVesselTraffic\": [\n    1,\n    2,\n    3\n  ],\n  \"positionReport\": null\n}"

C7_FileContent ==
  pc \in {"print", "done"} =>
    LET vt == GetsTo(url_currentVesselTraffic)[1].resp
        pr == GetsTo(url_positionReport)[1].resp
    IN /\ filename \in DOMAIN files
       /\ files[filename] =
            Dumps(JObj(<< <<"currentVesselTraffic", OwnResult(vt)>>,
                          <<"positionReport", OwnResult(pr)>> >>), 0)
       /\ (/\ vt = Http(200, DataBody(JArr(<<JNum(1), JNum(2), JNum(3)>>)))
           /\ pr = Http(200, DataBody(JNull)))
          => files[filename] = ExampleText

C7_Witness ==
  /\ pc = "done"
  /\ Posts[1].resp = Http(200, TokenBody(JStr("T")))
  /\ GetsTo(url_currentVesselTraffic)[1].resp
       = Http(200, DataBody(JArr(<<JNum(1), JNum(2), JNum(3)>>)))
  /\ GetsTo(url_positionReport)[1].resp = Http(200, DataBody(JNull))
  /\ files[filename] = ExampleText

----------------------------------------------------------------------------
(* C8: a run is one login POST, then the vessel-traffic GET, then the     *)
(* position-report GET, then the file write, then the success message;    *)
(* each at most once, nothing repeated.                                   *)

Label(e) ==
  CASE e.op = "POST" -> "POST " \o e.target
    [] e.op = "GET" -> "GET " \o e.target
    [] e.op = "print" -> IF e.target = SavedMessage(filename) THEN "saved" ELSE "error"
    [] OTHER -> e.op

MainOps == SelectSeq(io, LAMBDA e : Label(e) # "error")

Canonical ==
  << "POST " \o url_login, "GET " \o url_currentVesselTraffic,
     "GET " \o url_positionReport, "makedirs", "write", "saved" >>

StepsDone ==
  CASE pc = "login" -> 0
    [] pc = "fetch1" -> 1
    [] pc = "fetch2" -> 2
    [] pc \in {"collect", "timestamp", "makedirs"} -> 3
    [] pc = "dump" -> 4
    [] pc = "print" -> 5
    [] pc = "done" -> 6
    [] pc = "aborted" -> 1

C8_StrictSequence ==
  /\ Len(MainOps) = StepsDone
  /\ \A i \in 1..Len(MainOps) : Label(MainOps[i]) = Canonical[i]
  /\ Len(Posts) <= 1
  /\ Len(GetsTo(url_currentVesselTraffic)) <= 1
  /\ Len(GetsTo(url_positionReport)) <= 1
  /\ Len(SelectSeq(io, LAMBDA e : e.op = "write")) <= 1
  /\ \A i \in DOMAIN io :
       Label(io[i]) = "error" =>
         /\ i > 1
         /\ io[i - 1].op = "GET"
         /\ FetchFailed(io[i - 1].resp)

C8_Witness ==
  /\ pc = "done"
  /\ Len(io) = 8
  /\ Label(io[3]) = "error"
  /\ Label(io[5]) = "error"
  /\ Label(io[8]) = "saved"

----------------------------------------------------------------------------
(* C9: the data folder exists once a run has dumped, and existing is no   *)
(* error; the file of a run is named by the Vancouver wall-clock second;  *)
(* every file dumped under a name no later run used is still there with   *)
(* its text, and a name used again holds the text of the latest run only. *)

LastDump(name) ==
  CHOOSE j \in DOMAIN saved :
    /\ saved[j][1] = name
    /\ \A k \in DOMAIN saved : k > j => saved[k][1] # name

C9_TimestampKeyedFiles ==
  /\ DOMAIN files = { saved[i][1] : i \in DOMAIN saved }
  /\ \A i \in DOMAIN saved : files[saved[i][1]] = saved[LastDump(saved[i][1])][2]
  /\ Len(saved) > 0 => dataDir
  /\ unhandled \notin {"FileExistsError", "FileNotFoundError"}
  /\ pc \in {"makedirs", "dump", "print", "done"} =>
       /\ filename = Strftime(now) \o ".json"
       /\ now = 1762070400 => filename = "2025-11-02_01-00-00.json"
       /\ now = 1762073999 => filename = "2025-11-02_01-59-59.json"
       /\ now = 1762074000 => filename = "2025-11-02_01-00-00.json"

C9_Witness ==
  /\ Len(saved) = 2
  /\ saved[1][1] = saved[2][1]
  /\ saved[1][2] # saved[2][2]
  /\ now = DstEnd
  /\ DOMAIN files = {"2025-11-02_01-00-00.json"}
  /\ files["2025-11-02_01-00-00.json"] = saved[2][2]

----------------------------------------------------------------------------
(* C10: a session is returned only for a login response with a success    *)
(* (2xx) status and a JSON object body holding a non-empty access_token;  *)
(* otherwise no session and no Authorization header, so never 'Bearer '   *)
(* with an empty or 'None' token.                                         *)

C10_SessionOnlyOnSuccess ==
  /\ session.bound =>
       /\ Is2xx(Posts[1].resp)
       /\ IsJsonObject(Posts[1].resp)
       /\ HasKey(Posts[1].resp.body, "access_token")
       /\ LoginToken \notin {JNull, JStr("")}
  /\ ~session.bound => session.authorization = Absent
  /\ session.authorization \notin {"Bearer ", "Bearer None"}

====
